---- MODULE Spec2Model ----
(***************************************************************************)
(* Model of the storage-access linter (src/linter/src/main.rs): the        *)
(* producer/worker pipeline of main and worker, and the per-function       *)
(* duplicate-access detection of parse_and_lint over a syntax tree.        *)
(*                                                                         *)
(* Texts are sequences of one-character strings, so that format!("s.{}"),  *)
(* starts_with('_') and byte offsets are computed, not assumed.            *)
(***************************************************************************)
EXTENDS Integers, Sequences, FiniteSets, TLC

(***************************************************************************)
(* Bounds of the model.                                                    *)
(***************************************************************************)
\* functions / state variables in one source file
MaxItems == 2
\* expression statements in one source file (all items together)
MaxStmts == 2
\* workers of the pool (available_parallelism) in the pipeline specification
NThreads == 2
\* entries WalkDir yields under "src" in the pipeline specification
MaxEntries == 2

(***************************************************************************)
(* Source text: the fragment of Solidity the inputs are drawn from.        *)
(***************************************************************************)
Id(name) == [op |-> "id", name |-> name]
Member(base, member) == [op |-> "member", base |-> base, member |-> member]
Call(callee) == [op |-> "call", callee |-> callee]
\* the statement `uint <name>;`, the declaration of a local variable
Decl(name) == [op |-> "decl", name |-> name]

NameS == <<"s">>
NameA == <<"a">>
NameB == <<"b">>
NameX == <<"x">>
NameUX == <<"_", "x">>
NameF == <<"f">>
NameC == <<"C">>
NameY == <<"y">>

\* the expressions a statement (or a state variable initialiser) can be:
\*   s.a   s._x   s.a.b   s.a._x   _x   x   _x()
Exprs ==
    { Member(Id(NameS), NameA),
      Member(Id(NameS), NameUX),
      Member(Member(Id(NameS), NameA), NameB),
      Member(Member(Id(NameS), NameA), NameUX),
      Id(NameUX),
      Id(NameX),
      Call(Id(NameUX)) }

\* an item of the contract body: a function `function <name>(<param>) { <body> }`
\* or a state variable `uint y = <body[1]>;`
Fn(name, param, body) == [kind |-> "fn", name |-> name, param |-> param, body |-> body]
Var(name, init) == [kind |-> "var", name |-> name, param |-> <<>>, body |-> <<init>>]

\* the first function of a file is `f()`, `f(uint _x)` or `_x()`; a later one
\* is again named `f`
FnHeaders(first) ==
    IF first
    THEN { Fn(NameF, <<>>, <<>>), Fn(NameF, NameUX, <<>>), Fn(NameUX, <<>>, <<>>) }
    ELSE { Fn(NameF, <<>>, <<>>) }

VarExprs == { Member(Id(NameS), NameA), Id(NameUX) }

\* the functions of l statements
FnItems(first, l) ==
    { Fn(h.name, h.param, b) : h \in FnHeaders(first), b \in [1..l -> Exprs] }

VarItems == { Var(NameY, e) : e \in VarExprs }

RECURSIVE ItemSeqs(_, _, _)
\* the sequences of at most k items holding at most n statements together;
\* a function after the first has a statement
ItemSeqs(first, k, n) ==
    IF k = 0 THEN { <<>> }
    ELSE { <<>> }
         \cup UNION { LET rest == ItemSeqs(FALSE, k - 1, n - l) IN
                        { <<it>> \o r : it \in FnItems(first, l), r \in rest } :
                      l \in (IF first THEN 0 ELSE 1)..n }
         \cup (IF n = 0 THEN {}
               ELSE LET rest == ItemSeqs(first, k - 1, n - 1) IN
                    { <<it>> \o r : it \in VarItems, r \in rest })

(***************************************************************************)
(* The syntax tree lang.parse builds (concrete syntax tree, nodes in       *)
(* pre-order).  A node: kind, depth, text (terminals only), line.          *)
(***************************************************************************)
T(kind, depth, text) == << [kind |-> kind, depth |-> depth, text |-> text] >>
NT(kind, depth) == T(kind, depth, <<>>)

KwFunction == <<"f", "u", "n", "c", "t", "i", "o", "n">>
KwContract == <<"c", "o", "n", "t", "r", "a", "c", "t">>
KwUint == <<"u", "i", "n", "t">>

RECURSIVE ExprNodes(_, _)
ExprNodes(e, d) ==
    NT("Expression", d) \o
    CASE e.op = "id" ->
           T("Identifier", d + 1, e.name)
      [] e.op = "member" ->
           NT("MemberAccessExpression", d + 1)
           \o ExprNodes(e.base, d + 2)
           \o T("Period", d + 2, <<".">>)
           \o NT("MemberAccess", d + 2)
           \o T("Identifier", d + 3, e.member)
      [] e.op = "call" ->
           NT("FunctionCallExpression", d + 1)
           \o ExprNodes(e.callee, d + 2)
           \o NT("ArgumentsDeclaration", d + 2)
           \o NT("PositionalArgumentsDeclaration", d + 3)
           \o T("OpenParen", d + 4, <<"(">>)
           \o T("CloseParen", d + 4, <<")">>)

RECURSIVE StmtNodes(_, _)
StmtNodes(body, d) ==
    IF body = <<>> THEN <<>>
    ELSE NT("Statement", d)
         \o (IF Head(body).op = "decl"
             THEN NT("VariableDeclarationStatement", d + 1)
                  \o NT("VariableDeclarationType", d + 2)
                  \o NT("TypeName", d + 3)
                  \o NT("ElementaryType", d + 4)
                  \o T("UintKeyword", d + 5, KwUint)
                  \o T("Identifier", d + 2, Head(body).name)
             ELSE NT("ExpressionStatement", d + 1)
                  \o ExprNodes(Head(body), d + 2))
         \o T("Semicolon", d + 2, <<";">>)
         \o StmtNodes(Tail(body), d)

ParamNodes(param, d) ==
    IF param = <<>> THEN <<>>
    ELSE NT("Parameters", d)
         \o NT("Parameter", d + 1)
         \o NT("TypeName", d + 2)
         \o NT("ElementaryType", d + 3)
         \o T("UintKeyword", d + 4, KwUint)
         \o T("Identifier", d + 2, param)

ItemNodes(it, d) ==
    NT("ContractMember", d) \o
    IF it.kind = "fn"
    THEN NT("FunctionDefinition", d + 1)
         \o T("FunctionKeyword", d + 2, KwFunction)
         \o NT("FunctionName", d + 2)
         \o T("Identifier", d + 3, it.name)
         \o NT("ParametersDeclaration", d + 2)
         \o T("OpenParen", d + 3, <<"(">>)
         \o ParamNodes(it.param, d + 3)
         \o T("CloseParen", d + 3, <<")">>)
         \o NT("FunctionBody", d + 2)
         \o NT("Block", d + 3)
         \o T("OpenBrace", d + 4, <<"{">>)
         \o (IF it.body = <<>> THEN <<>>
             ELSE NT("Statements", d + 4) \o StmtNodes(it.body, d + 5))
         \o T("CloseBrace", d + 4, <<"}">>)
    ELSE NT("StateVariableDefinition", d + 1)
         \o NT("TypeName", d + 2)
         \o NT("ElementaryType", d + 3)
         \o T("UintKeyword", d + 4, KwUint)
         \o T("Identifier", d + 2, it.name)
         \o NT("StateVariableDefinitionValue", d + 2)
         \o T("Equal", d + 3, <<"=">>)
         \o ExprNodes(it.body[1], d + 3)
         \o T("Semicolon", d + 2, <<";">>)

\* (the sequence is bound once, as ns: at the call sites it is an expression)
WithLine(nodes, line) ==
    CHOOSE r \in { [i \in DOMAIN ns |->
                      [kind |-> ns[i].kind, depth |-> ns[i].depth,
                       text |-> ns[i].text, line |-> line]] : ns \in { nodes } } : TRUE

RECURSIVE ItemsNodes(_, _, _)
\* every item starts on a line of its own (the contract header is line 0)
ItemsNodes(items, d, line) ==
    IF items = <<>> THEN <<>>
    ELSE WithLine(ItemNodes(Head(items), d), line)
         \o ItemsNodes(Tail(items), d, line + 1)

UnitNodes(items) ==
    WithLine(NT("SourceUnit", 0)
             \o NT("SourceUnitMembers", 1)
             \o NT("SourceUnitMember", 2)
             \o NT("ContractDefinition", 3)
             \o T("ContractKeyword", 4, KwContract)
             \o T("Identifier", 4, NameC)
             \o T("OpenBrace", 4, <<"{">>), 0)
    \o (IF items = <<>> THEN <<>>
        ELSE WithLine(NT("ContractMembers", 4), 1) \o ItemsNodes(items, 5, 1))
    \o WithLine(T("CloseBrace", 4, <<"}">>), Len(items) + 1)

Max(S) == CHOOSE x \in S : \A y \in S : y <= x
Min(S) == CHOOSE x \in S : \A y \in S : x <= y

RECURSIVE Link(_, _, _, _)
\* nodes i.. with their parent links and byte offsets; off: the bytes of the
\* terminals before node i, open[d + 1]: the last node of depth d before node i
Link(nodes, i, off, open) ==
    IF i > Len(nodes) THEN <<>>
    ELSE LET n == nodes[i] IN
         << [kind   |-> n.kind,
             text   |-> n.text,
             line   |-> n.line,
             parent |-> IF n.depth = 0 THEN 0 ELSE open[n.depth],
             off    |-> off] >>
         \o Link(nodes, i + 1, off + Len(n.text), SubSeq(open, 1, n.depth) \o <<i>>)

\* the tree of a source text
Tree(items) == CHOOSE t \in { Link(ns, 1, 0, <<>>) : ns \in { UnitNodes(items) } } : TRUE

(***************************************************************************)
(* Cursor navigation and the two queries (Pattern Matcher).                *)
(***************************************************************************)
IsTerminal(node) == node.text # <<>>

\* Cursor::go_to_parent: the parent node, 0 when the cursor is at the root
GoToParent(tree, n) == IF n = 0 THEN 0 ELSE tree[n].parent

\* Cursor::go_to_next_terminal_with_kind: the next terminal of that kind in
\* document order after node n (0: none, the cursor stays)
GoToNextTerminalWithKind(tree, n, kind) ==
    LET later == { j \in DOMAIN tree :
                     j > n /\ IsTerminal(tree[j]) /\ tree[j].kind = kind }
    IN IF later = {} THEN 0 ELSE Min(later)

\* Node::unparse of a terminal
Unparse(tree, n) == tree[n].text

ChildSet(tree, n) == { j \in DOMAIN tree : tree[j].parent = n }

RECURSIVE SortedSeq(_)
SortedSeq(S) == IF S = {} THEN <<>>
                ELSE <<Min(S)>> \o SortedSeq(S \ {Min(S)})

Children(tree, n) == SortedSeq(ChildSet(tree, n))

\* the query with `[Expression]` for `[Expression ["s"]]`
StorageStructQueryAnyBase(tree, n) ==
    LET cs == Children(tree, n) IN
    IF /\ tree[n].kind = "MemberAccessExpression"
       /\ Len(cs) >= 3
       /\ tree[cs[1]].kind = "Expression"
       /\ tree[cs[2]].kind = "Period"
       /\ tree[cs[3]].kind = "MemberAccess"
       /\ LET ms == Children(tree, cs[3]) IN
            Len(ms) = 1 /\ IsTerminal(tree[ms[1]]) /\ tree[ms[1]].kind = "Identifier"
    THEN Children(tree, cs[3])[1]
    ELSE 0

\* storage_struct_query:
\*   [MemberAccessExpression [Expression ["s"]] [Period]
\*                           [MemberAccess @var_name [Identifier]] ...]
\* the captured node, 0 when node n is no match
StorageStructQuery(tree, n) ==
    LET cs == Children(tree, n) IN
    IF /\ tree[n].kind = "MemberAccessExpression"
       /\ Len(cs) >= 3
       /\ tree[cs[1]].kind = "Expression"
       /\ LET es == Children(tree, cs[1]) IN
            Len(es) = 1 /\ IsTerminal(tree[es[1]]) /\ tree[es[1]].text = <<"s">>
       /\ tree[cs[2]].kind = "Period"
       /\ tree[cs[3]].kind = "MemberAccess"
       /\ LET ms == Children(tree, cs[3]) IN
            Len(ms) = 1 /\ IsTerminal(tree[ms[1]]) /\ tree[ms[1]].kind = "Identifier"
    THEN Children(tree, cs[3])[1]
    ELSE 0

\* normal_storage_query:  @var_name [Identifier]
NormalStorageQuery(tree, n) ==
    IF IsTerminal(tree[n]) /\ tree[n].kind = "Identifier" THEN n ELSE 0

RECURSIVE QueryFrom(_, _)
\* cursor.query(vec![storage_struct_query, normal_storage_query]): the
\* matches in document order, each tagged with the index of its query
QueryFrom(tree, n) ==
    IF n > Len(tree) THEN <<>>
    ELSE (IF StorageStructQuery(tree, n) # 0
          THEN << [query_number |-> 0, var_name |-> StorageStructQuery(tree, n)] >>
          ELSE <<>>)
         \o (IF NormalStorageQuery(tree, n) # 0
             THEN << [query_number |-> 1, var_name |-> NormalStorageQuery(tree, n)] >>
             ELSE <<>>)
         \o QueryFrom(tree, n + 1)

Query(tree) == QueryFrom(tree, 1)

(***************************************************************************)
(* Access Tracker: the body of the `for m in cursor.query(..)` loop.       *)
(***************************************************************************)
StartsWith(text, c) == Len(text) > 0 /\ text[1] = c

\* format!("s.{member_name}")
StoragePrefixed(text) == <<"s", ".">> \o text

\* the filters of lines 163-176 left out
ParentIsMemberAccessNever(tree, n) == FALSE
GrandparentIsCallNever(tree, n) == FALSE

\* the bare-identifier filters: TRUE when the loop body `continue`s
ParentIsMemberAccess(tree, n) ==
    \E p \in { GoToParent(tree, n) } :
      p # 0 /\ tree[p].kind = "MemberAccess"

GrandparentIsCall(tree, n) ==
    \E p \in { GoToParent(tree, n) } :
      \E g \in { GoToParent(tree, p) } :
        g # 0 /\ tree[g].kind = "FunctionCallExpression"

\* the filters with one more: an identifier that is being declared (a
\* function's name, a parameter, a local variable) is left out
SkippedAtDeclaration(tree, m) ==
    /\ m.query_number # 0
    /\ \/ ParentIsMemberAccess(tree, m.var_name)
       \/ GrandparentIsCall(tree, m.var_name)
       \/ ~StartsWith(Unparse(tree, m.var_name), "_")
       \/ tree[GoToParent(tree, m.var_name)].kind
            \in { "FunctionName", "Parameter", "VariableDeclarationStatement" }

\* the filters without the marker test of line 177
SkippedWithoutMarker(tree, m) ==
    /\ m.query_number # 0
    /\ \/ ParentIsMemberAccess(tree, m.var_name)
       \/ GrandparentIsCall(tree, m.var_name)

Skipped(tree, m) ==
    /\ m.query_number # 0
    /\ \/ ParentIsMemberAccess(tree, m.var_name)
       \/ GrandparentIsCall(tree, m.var_name)
       \/ ~StartsWith(Unparse(tree, m.var_name), "_")

\* the name without the `s.` of line 160
MemberNameUnprefixed(tree, m) == Unparse(tree, m.var_name)

\* member_name after the if/else of lines 159-180
MemberName(tree, m) ==
    IF m.query_number = 0
    THEN StoragePrefixed(Unparse(tree, m.var_name))
    ELSE Unparse(tree, m.var_name)

\* the last FunctionDefinition before node n in document order, enclosing or not
FunctionCursorPreceding(tree, n) ==
    LET before == { j \in DOMAIN tree : j < n /\ tree[j].kind = "FunctionDefinition" }
    IN IF before = {} THEN 0 ELSE Max(before)

RECURSIVE FunctionCursor(_, _)
\* while function_cursor.go_to_parent() { if !FunctionDefinition { continue } .. break }
\* the first FunctionDefinition above node n, 0 when the root is passed
FunctionCursor(tree, n) ==
    CHOOSE r \in
      { IF p = 0 THEN 0
        ELSE IF tree[p].kind # "FunctionDefinition" THEN FunctionCursor(tree, p)
        ELSE p : p \in { GoToParent(tree, n) } } : TRUE

\* the function's name token: go_to_next_terminal_with_kind(Identifier)
FunctionNameToken(tree, m) ==
    CHOOSE r \in
      { IF fn = 0 THEN 0 ELSE GoToNextTerminalWithKind(tree, fn, "Identifier") :
        fn \in { FunctionCursor(tree, m.var_name) } } : TRUE

\* accesses.entry(key).or_default()
Entry(acc, key) == IF key \in DOMAIN acc THEN acc[key] ELSE <<>>

Contains(list, x) == \E i \in DOMAIN list : list[i] = x

\* a check against the last pushed member only
IsRepeatLast(acc, key, name) ==
    LET list == Entry(acc, key) IN
    list # <<>> /\ list[Len(list)] = name

\* function_accesses.contains(&member_name)
IsRepeat(acc, key, name) == Contains(Entry(acc, key), name)

\* the push without the `break` of line 200
RecordedAlways(acc, key, name) ==
    [k \in DOMAIN acc \cup {key} |->
        IF k # key THEN acc[k] ELSE Append(Entry(acc, key), name)]

\* the map after lines 192-202: the entry is taken (created empty when
\* absent) and, unless the name repeats, pushed to
Recorded(acc, key, name) ==
    [k \in DOMAIN acc \cup {key} |->
        IF k # key THEN acc[k]
        ELSE IF IsRepeat(acc, key, name) THEN Entry(acc, key)
        ELSE Append(Entry(acc, key), name)]

\* one scope for the whole file
ScopeKeyShared(tree, tok) == 0

\* range.start.utf8 of the function's name token
ScopeKey(tree, tok) == tree[tok].off

\* the eprintln! of lines 195-199
Diagnostic(path, tree, tok, name) ==
    [kind |-> "dup", path |-> path, function |-> Unparse(tree, tok),
     line |-> tree[tok].line, member |-> name]

\* one iteration of the loop: the map and the lines written to stderr
LintMatch(path, tree, m, acc) ==
    CHOOSE r \in
      { IF Skipped(tree, m) \/ tok = 0
        THEN [accesses |-> acc, out |-> <<>>]
        ELSE LET key == ScopeKey(tree, tok) IN
             [accesses |-> Recorded(acc, key, name),
              out |-> IF IsRepeat(acc, key, name)
                      THEN << Diagnostic(path, tree, tok, name) >>
                      ELSE <<>>] :
        tok \in { FunctionNameToken(tree, m) }, name \in { MemberName(tree, m) } } : TRUE

RECURSIVE LintFrom(_, _, _, _, _)
\* the lines the loop writes from match k on, the map being acc
LintFrom(path, tree, ms, k, acc) ==
    IF k > Len(ms) THEN <<>>
    ELSE LET r == LintMatch(path, tree, ms[k], acc) IN
         r.out \o LintFrom(path, tree, ms, k + 1, r.accesses)

\* lines 133-206 for a valid file: the lines the whole loop writes
LintFile(path, items) ==
    LET t == Tree(items) IN LintFrom(path, t, Query(t), 1, <<>>)

(***************************************************************************)
(* State.                                                                  *)
(***************************************************************************)
VARIABLES
    config,     \* foundry.toml as main finds it
    disk,       \* the entries WalkDir("src") yields, in order; a path is an index
    mainPc,     \* where main is
    version,    \* solidity_version
    walkIdx,    \* the next entry of the walk
    queue,      \* the channel's buffer (paths)
    closed,     \* the channel was closed
    joined,     \* handles main has awaited
    result,     \* what main returned: "none" (running), "ok", "err"
    wPc,        \* where each worker is
    wPath,      \* the path a worker holds (0: none)
    tree,       \* parse_and_lint: the tree of the file
    matches,    \* parse_and_lint: the stream cursor.query returns
    mIdx,       \* parse_and_lint: the next match of the stream
    accesses,   \* parse_and_lint: function name offset -> accessed members
    stdout,     \* lines printed with println!
    stderr      \* lines printed with eprintln!

vars == << config, disk, mainPc, version, walkIdx, queue, closed, joined, result,
           wPc, wPath, tree, matches, mIdx, accesses, stdout, stderr >>

mainVars == << config, mainPc, version, walkIdx, joined, result >>
lintVars == << tree, matches, mIdx, accesses >>

Workers == 1..NThreads

DefaultVersion == <<"0", ".", "8", ".", "2", "6">>
OtherVersion == <<"0", ".", "8", ".", "2", "0">>
BadVersion == <<"n", "o", "n", "e">>

Configs == { "missing", "unreadable", "malformed", "nokey", "version", "badversion" }

\* a .sol file: readable or not, its text (items), and whether it parses
SolFile(readable, valid, items) ==
    [kind |-> "sol", readable |-> readable, valid |-> valid, items |-> items]
\* an entry that is sent to no worker: "error", an entry WalkDir or metadata()
\* fails on (logged), or "other", a directory or a file whose extension is not
\* sol (passed over)
OtherEntry(kind) == [kind |-> kind, readable |-> FALSE, valid |-> FALSE, items |-> <<>>]

Line(kind, path, function, line, member) ==
    [kind |-> kind, path |-> path, function |-> function, line |-> line,
     member |-> member]

(***************************************************************************)
(* parse_and_lint, a step at a time.                                       *)
(***************************************************************************)
\* parse_and_lint without the is_valid() check of lines 130-132
ParseFileUnchecked(w) ==
    /\ wPc[w] = "parse"
    /\ LET file == disk[wPath[w]] IN
       IF ~file.readable
       THEN /\ stderr' = Append(stderr, Line("failed", wPath[w], <<>>, 0, <<>>))
            /\ wPc' = [wPc EXCEPT ![w] = "recv"]
            /\ wPath' = [wPath EXCEPT ![w] = 0]
            /\ UNCHANGED lintVars
       ELSE \E t \in { Tree(file.items) } :
            /\ tree' = [tree EXCEPT ![w] = t]
            /\ matches' = [matches EXCEPT ![w] = Query(t)]
            /\ mIdx' = [mIdx EXCEPT ![w] = 1]
            /\ accesses' = [accesses EXCEPT ![w] = <<>>]
            /\ wPc' = [wPc EXCEPT ![w] = "match"]
            /\ stderr' = IF file.valid THEN stderr
                         ELSE Append(stderr, Line("syntax", wPath[w], <<>>, 0, <<>>))
            /\ UNCHANGED wPath
    /\ UNCHANGED << disk, queue, closed, stdout >>
    /\ UNCHANGED mainVars

\* parse_and_lint(..)? in the worker: a file's error ends the worker
ParseFilePropagating(w) ==
    /\ wPc[w] = "parse"
    /\ LET file == disk[wPath[w]] IN
       IF ~file.readable
       THEN /\ stderr' = Append(stderr, Line("failed", wPath[w], <<>>, 0, <<>>))
            /\ wPc' = [wPc EXCEPT ![w] = "failed"]
            /\ wPath' = [wPath EXCEPT ![w] = 0]
            /\ UNCHANGED lintVars
       ELSE IF ~file.valid
       THEN /\ stderr' = stderr \o << Line("syntax", wPath[w], <<>>, 0, <<>>),
                                     Line("failed", wPath[w], <<>>, 0, <<>>) >>
            /\ wPc' = [wPc EXCEPT ![w] = "failed"]
            /\ wPath' = [wPath EXCEPT ![w] = 0]
            /\ UNCHANGED lintVars
       ELSE \E t \in { Tree(file.items) } :
            /\ tree' = [tree EXCEPT ![w] = t]
            /\ matches' = [matches EXCEPT ![w] = Query(t)]
            /\ mIdx' = [mIdx EXCEPT ![w] = 1]
            /\ accesses' = [accesses EXCEPT ![w] = <<>>]
            /\ wPc' = [wPc EXCEPT ![w] = "match"]
            /\ UNCHANGED << wPath, stderr >>
    /\ UNCHANGED << disk, queue, closed, stdout >>
    /\ UNCHANGED mainVars

\* lines 120-152: read, parse, log the parse errors, bail when invalid,
\* else build the queries and the empty map
ParseFile(w) ==
    /\ wPc[w] = "parse"
    /\ LET file == disk[wPath[w]] IN
       IF ~file.readable
       THEN \* fs::read_to_string fails: parse_and_lint returns Err, the worker
            \* logs it and goes on (`continue`)
            /\ stderr' = Append(stderr, Line("failed", wPath[w], <<>>, 0, <<>>))
            /\ wPc' = [wPc EXCEPT ![w] = "recv"]
            /\ wPath' = [wPath EXCEPT ![w] = 0]
            /\ UNCHANGED lintVars
       ELSE IF ~file.valid
       THEN /\ stderr' = stderr \o << Line("syntax", wPath[w], <<>>, 0, <<>>),
                                     Line("failed", wPath[w], <<>>, 0, <<>>) >>
            /\ wPc' = [wPc EXCEPT ![w] = "recv"]
            /\ wPath' = [wPath EXCEPT ![w] = 0]
            /\ UNCHANGED lintVars
       ELSE \E t \in { Tree(file.items) } :
            /\ tree' = [tree EXCEPT ![w] = t]
            /\ matches' = [matches EXCEPT ![w] = Query(t)]
            /\ mIdx' = [mIdx EXCEPT ![w] = 1]
            /\ accesses' = [accesses EXCEPT ![w] = <<>>]
            /\ wPc' = [wPc EXCEPT ![w] = "match"]
            /\ UNCHANGED << wPath, stderr >>
    /\ UNCHANGED << disk, queue, closed, stdout >>
    /\ UNCHANGED mainVars

\* the loop on one table that all the workers share
LintStepSharedTable(w) ==
    /\ wPc[w] = "match"
    /\ mIdx[w] <= Len(matches[w])
    /\ \E r \in { LintMatch(wPath[w], tree[w], matches[w][mIdx[w]], accesses[1]) } :
         /\ accesses' = [accesses EXCEPT ![1] = r.accesses]
         /\ stderr' = stderr \o r.out
    /\ mIdx' = [mIdx EXCEPT ![w] = @ + 1]
    /\ UNCHANGED << disk, queue, closed, stdout, wPc, wPath, tree, matches >>
    /\ UNCHANGED mainVars

\* lines 153-206: one iteration of the loop over the matches
LintStep(w) ==
    /\ wPc[w] = "match"
    /\ mIdx[w] <= Len(matches[w])
    /\ \E r \in { LintMatch(wPath[w], tree[w], matches[w][mIdx[w]], accesses[w]) } :
         /\ accesses' = [accesses EXCEPT ![w] = r.accesses]
         /\ stderr' = stderr \o r.out
    /\ mIdx' = [mIdx EXCEPT ![w] = @ + 1]
    /\ UNCHANGED << disk, queue, closed, stdout, wPc, wPath, tree, matches >>
    /\ UNCHANGED mainVars

\* line 208: Ok(()); the tree and the map are dropped, the worker loops
LintReturn(w) ==
    /\ wPc[w] = "match"
    /\ mIdx[w] > Len(matches[w])
    /\ wPc' = [wPc EXCEPT ![w] = "recv"]
    /\ wPath' = [wPath EXCEPT ![w] = 0]
    /\ tree' = [tree EXCEPT ![w] = <<>>]
    /\ matches' = [matches EXCEPT ![w] = <<>>]
    /\ mIdx' = [mIdx EXCEPT ![w] = 0]
    /\ accesses' = [accesses EXCEPT ![w] = <<>>]
    /\ UNCHANGED << disk, queue, closed, stdout, stderr >>
    /\ UNCHANGED mainVars

(***************************************************************************)
(* The analysis of one file: a worker of a pool of one that has received   *)
(* the only path of the run, any file of the bounded fragment.             *)
(***************************************************************************)
Sources == ItemSeqs(TRUE, MaxItems, MaxStmts)

InitLint ==
    /\ config = "missing"
    /\ disk \in { << SolFile(TRUE, TRUE, items) >> : items \in Sources }
    /\ mainPc = "join"
    /\ version = DefaultVersion
    /\ walkIdx = 2
    /\ queue = <<>>
    /\ closed = TRUE
    /\ joined = 0
    /\ result = "none"
    /\ wPc = [w \in Workers |-> IF w = 1 THEN "parse" ELSE "done"]
    /\ wPath = [w \in Workers |-> IF w = 1 THEN 1 ELSE 0]
    /\ tree = [w \in Workers |-> <<>>]
    /\ matches = [w \in Workers |-> <<>>]
    /\ mIdx = [w \in Workers |-> 0]
    /\ accesses = [w \in Workers |-> <<>>]
    /\ stdout = << Line("version", 0, <<>>, 0, DefaultVersion),
                   Line("processing", 1, <<>>, 0, <<>>) >>
    /\ stderr = <<>>

NextLint == \E w \in Workers : ParseFile(w) \/ LintStep(w) \/ LintReturn(w)

SpecLint == InitLint /\ [][NextLint]_vars

\* The analysis of one function with local variables: its statements are
\*   uint _x;   uint x;   _x;   _x();   s._x;
DeclStmts ==
    { Decl(NameUX), Decl(NameX), Id(NameUX), Call(Id(NameUX)), Member(Id(NameS), NameUX) }

DeclSources ==
    { << Fn(h.name, h.param, b) >> :
        h \in FnHeaders(TRUE), b \in UNION { [1..l -> DeclStmts] : l \in 0..MaxStmts } }

InitDecl ==
    /\ config = "missing"
    /\ disk \in { << SolFile(TRUE, TRUE, items) >> : items \in DeclSources }
    /\ mainPc = "join"
    /\ version = DefaultVersion
    /\ walkIdx = 2
    /\ queue = <<>>
    /\ closed = TRUE
    /\ joined = 0
    /\ result = "none"
    /\ wPc = [w \in Workers |-> IF w = 1 THEN "parse" ELSE "done"]
    /\ wPath = [w \in Workers |-> IF w = 1 THEN 1 ELSE 0]
    /\ tree = [w \in Workers |-> <<>>]
    /\ matches = [w \in Workers |-> <<>>]
    /\ mIdx = [w \in Workers |-> 0]
    /\ accesses = [w \in Workers |-> <<>>]
    /\ stdout = << Line("version", 0, <<>>, 0, DefaultVersion),
                   Line("processing", 1, <<>>, 0, <<>>) >>
    /\ stderr = <<>>

SpecDecl == InitDecl /\ [][NextLint]_vars

(***************************************************************************)
(* main: configuration, the pool, the walk, the close, the joins.          *)
(***************************************************************************)
workerVars == << wPc, wPath, tree, matches, mIdx, accesses >>

\* the configuration with every failure turned into the default
ReadConfigLenient ==
    /\ mainPc = "config"
    /\ version' = CASE config = "version" -> OtherVersion
                     [] config = "badversion" -> BadVersion
                     [] OTHER -> DefaultVersion
    /\ stdout' = Append(stdout, Line("version", 0, <<>>, 0, version'))
    /\ mainPc' = "spawn"
    /\ UNCHANGED result
    /\ UNCHANGED << config, disk, walkIdx, queue, closed, joined, stderr >>
    /\ UNCHANGED workerVars

\* lines 36-49: the version of foundry.toml, or the default
ReadConfig ==
    /\ mainPc = "config"
    /\ IF config \in { "unreadable", "malformed" }
       THEN \* fs::read_to_string(..)? or toml::from_str(..)? returns the error
            /\ result' = "config"
            /\ mainPc' = "returned"
            /\ UNCHANGED << version, stdout >>
       ELSE /\ version' = CASE config = "version" -> OtherVersion
                            [] config = "badversion" -> BadVersion
                            [] OTHER -> DefaultVersion
            /\ stdout' = Append(stdout, Line("version", 0, <<>>, 0, version'))
            /\ mainPc' = "spawn"
            /\ UNCHANGED result
    /\ UNCHANGED << config, disk, walkIdx, queue, closed, joined, stderr >>
    /\ UNCHANGED workerVars

\* lines 51-67: the channel and one spawned worker per thread
Spawn ==
    /\ mainPc = "spawn"
    /\ wPc' = [w \in Workers |-> "init"]
    /\ mainPc' = "walk"
    /\ UNCHANGED << config, disk, version, walkIdx, queue, closed, joined, result,
                    wPath, tree, matches, mIdx, accesses, stdout, stderr >>

\* the walk on a channel of capacity one: send waits for room
WalkBounded ==
    /\ mainPc = "walk"
    /\ walkIdx <= Len(disk)
    /\ LET entry == disk[walkIdx] IN
       IF entry.kind = "error"
       THEN /\ stderr' = Append(stderr, Line(entry.kind, walkIdx, <<>>, 0, <<>>))
            /\ walkIdx' = walkIdx + 1
            /\ UNCHANGED << queue, mainPc, result >>
       ELSE IF entry.kind # "sol"
       THEN /\ walkIdx' = walkIdx + 1
            /\ UNCHANGED << queue, mainPc, result, stderr >>
       ELSE IF closed
       THEN /\ result' = "send"
            /\ mainPc' = "returned"
            /\ UNCHANGED << queue, walkIdx, stderr >>
       ELSE /\ Len(queue) < 1
            /\ queue' = Append(queue, walkIdx)
            /\ walkIdx' = walkIdx + 1
            /\ UNCHANGED << mainPc, result, stderr >>
    /\ UNCHANGED << config, disk, version, closed, joined, stdout >>
    /\ UNCHANGED workerVars

\* lines 69-93: one entry of the walk: logged and skipped, skipped, or sent
Walk ==
    /\ mainPc = "walk"
    /\ walkIdx <= Len(disk)
    /\ LET entry == disk[walkIdx] IN
       IF entry.kind = "error"
       THEN /\ stderr' = Append(stderr, Line(entry.kind, walkIdx, <<>>, 0, <<>>))
            /\ walkIdx' = walkIdx + 1
            /\ UNCHANGED << queue, mainPc, result >>
       ELSE IF entry.kind # "sol"
       THEN /\ walkIdx' = walkIdx + 1
            /\ UNCHANGED << queue, mainPc, result, stderr >>
       ELSE IF closed
       THEN \* tx.send(..).await? on a closed channel
            /\ result' = "send"
            /\ mainPc' = "returned"
            /\ UNCHANGED << queue, walkIdx, stderr >>
       ELSE /\ queue' = Append(queue, walkIdx)
            /\ walkIdx' = walkIdx + 1
            /\ UNCHANGED << mainPc, result, stderr >>
    /\ UNCHANGED << config, disk, version, closed, joined, stdout >>
    /\ UNCHANGED workerVars

\* line 94: tx.close()
Close ==
    /\ mainPc = "walk"
    /\ walkIdx > Len(disk)
    /\ closed' = TRUE
    /\ mainPc' = "join"
    /\ UNCHANGED << config, disk, version, walkIdx, queue, joined, result,
                    stdout, stderr >>
    /\ UNCHANGED workerVars

\* lines 97-99: handle.await?? of the next handle, in spawn order: the handle
\* of a worker that has ended; a panic is the JoinError of the first `?`, the
\* error of Language::new the Err of the second, and either is returned at once
Join ==
    /\ mainPc = "join"
    /\ joined < NThreads
    /\ wPc[joined + 1] \in { "done", "failed", "panicked" }
    /\ IF wPc[joined + 1] = "done"
       THEN /\ joined' = joined + 1
            /\ UNCHANGED << mainPc, result >>
       ELSE /\ result' = IF wPc[joined + 1] = "failed" THEN "init" ELSE "panic"
            /\ mainPc' = "returned"
            /\ UNCHANGED joined
    /\ UNCHANGED << config, disk, version, walkIdx, queue, closed, stdout, stderr >>
    /\ UNCHANGED workerVars

\* line 101: Ok(())
Return ==
    /\ mainPc = "join"
    /\ joined = NThreads
    /\ result' = "ok"
    /\ mainPc' = "returned"
    /\ UNCHANGED << config, disk, version, walkIdx, queue, closed, joined,
                    stdout, stderr >>
    /\ UNCHANGED workerVars

(***************************************************************************)
(* worker.                                                                 *)
(***************************************************************************)
\* solidity_version.parse()? and Language::new(..)?
VersionSupported(v) == v \in { DefaultVersion, OtherVersion }

\* line 105
WorkerInit(w) ==
    /\ wPc[w] = "init"
    /\ wPc' = [wPc EXCEPT ![w] = IF VersionSupported(version) THEN "recv" ELSE "failed"]
    /\ UNCHANGED << disk, queue, closed, stdout, stderr, wPath >>
    /\ UNCHANGED lintVars
    /\ UNCHANGED mainVars

\* recv that ends the loop on an empty queue, closed or not
RecvExitOnEmpty(w) ==
    /\ wPc[w] = "recv"
    /\ IF queue # <<>>
       THEN /\ wPath' = [wPath EXCEPT ![w] = Head(queue)]
            /\ queue' = Tail(queue)
            /\ stdout' = Append(stdout, Line("processing", Head(queue), <<>>, 0, <<>>))
            /\ wPc' = [wPc EXCEPT ![w] = "parse"]
       ELSE /\ wPc' = [wPc EXCEPT ![w] = "done"]
            /\ UNCHANGED << wPath, queue, stdout >>
    /\ UNCHANGED << disk, closed, stderr >>
    /\ UNCHANGED lintVars
    /\ UNCHANGED mainVars

\* recv that hands out the head of the queue and leaves it there
RecvWithoutTake(w) ==
    /\ wPc[w] = "recv"
    /\ IF queue # <<>>
       THEN /\ wPath' = [wPath EXCEPT ![w] = Head(queue)]
            /\ queue' = queue
            /\ stdout' = Append(stdout, Line("processing", Head(queue), <<>>, 0, <<>>))
            /\ wPc' = [wPc EXCEPT ![w] = "parse"]
       ELSE /\ closed
            /\ wPc' = [wPc EXCEPT ![w] = "done"]
            /\ UNCHANGED << wPath, queue, stdout >>
    /\ UNCHANGED << disk, closed, stderr >>
    /\ UNCHANGED lintVars
    /\ UNCHANGED mainVars

\* lines 106-107: rx.recv().await: a path, or Err once the channel is closed
\* and empty; on an empty open channel the worker waits
Recv(w) ==
    /\ wPc[w] = "recv"
    /\ IF queue # <<>>
       THEN /\ wPath' = [wPath EXCEPT ![w] = Head(queue)]
            /\ queue' = Tail(queue)
            /\ stdout' = Append(stdout, Line("processing", Head(queue), <<>>, 0, <<>>))
            /\ wPc' = [wPc EXCEPT ![w] = "parse"]
       ELSE /\ closed
            /\ wPc' = [wPc EXCEPT ![w] = "done"]
            /\ UNCHANGED << wPath, queue, stdout >>
    /\ UNCHANGED << disk, closed, stderr >>
    /\ UNCHANGED lintVars
    /\ UNCHANGED mainVars

\* line 107: println! panics when the write to stdout fails (a closed pipe);
\* the path was taken from the queue, the task ends with the panic
PrintPanic(w) ==
    /\ wPc[w] = "recv"
    /\ queue # <<>>
    /\ queue' = Tail(queue)
    /\ wPc' = [wPc EXCEPT ![w] = "panicked"]
    /\ UNCHANGED << disk, closed, stdout, stderr, wPath >>
    /\ UNCHANGED lintVars
    /\ UNCHANGED mainVars

\* #[tokio::main]: when main has returned the runtime is dropped; a task that
\* is not being polled (not polled yet, or woken and waiting to be polled at
\* rx.recv().await) is dropped without running again
Shutdown(w) ==
    /\ mainPc = "returned"
    /\ wPc[w] \in { "init", "recv" }
    /\ wPc' = [wPc EXCEPT ![w] = "cancelled"]
    /\ UNCHANGED << disk, queue, closed, stdout, stderr, wPath >>
    /\ UNCHANGED lintVars
    /\ UNCHANGED mainVars

(***************************************************************************)
(* The run: any configuration, any small directory.                        *)
(***************************************************************************)
\* function f() { _x; _x; }
DupSource == << Fn(NameF, <<>>, << Id(NameUX), Id(NameUX) >>) >>

Catalogue ==
    { SolFile(TRUE, TRUE, DupSource),
      SolFile(TRUE, FALSE, DupSource),
      SolFile(FALSE, FALSE, <<>>),
      OtherEntry("other"),
      OtherEntry("error") }

Disks == UNION { [1..k -> Catalogue] : k \in 0..MaxEntries }

Init ==
    /\ config \in Configs
    /\ disk \in Disks
    /\ mainPc = "config"
    /\ version = DefaultVersion
    /\ walkIdx = 1
    /\ queue = <<>>
    /\ closed = FALSE
    /\ joined = 0
    /\ result = "none"
    /\ wPc = [w \in Workers |-> "unspawned"]
    /\ wPath = [w \in Workers |-> 0]
    /\ tree = [w \in Workers |-> <<>>]
    /\ matches = [w \in Workers |-> <<>>]
    /\ mIdx = [w \in Workers |-> 0]
    /\ accesses = [w \in Workers |-> <<>>]
    /\ stdout = <<>>
    /\ stderr = <<>>

Next ==
    \/ ReadConfig
    \/ Spawn
    \/ Walk
    \/ Close
    \/ Join
    \/ Return
    \/ \E w \in Workers :
         \/ WorkerInit(w)
         \/ Recv(w)
         \/ PrintPanic(w)
         \/ Shutdown(w)
         \/ LintStep(w)
         \/ LintReturn(w)
    \/ \E w \in Workers : ParseFile(w)

Spec == Init /\ [][Next]_vars

\* The fair run: the runtime keeps polling as long as some task, main
\* included, can take a step.  The protocol looks neither at what a file holds
\* nor at which of the accepted configurations is in force: one configuration
\* per outcome of the start-up, one directory entry per way the walk and the
\* worker treat it.
FairConfigs == { "unreadable", "version", "badversion" }
FairCatalogue == { SolFile(TRUE, TRUE, DupSource), SolFile(FALSE, FALSE, <<>>), OtherEntry("other") }
InitFair == Init /\ config \in FairConfigs /\ \A p \in DOMAIN disk : disk[p] \in FairCatalogue
SpecFair == InitFair /\ [][Next]_vars /\ WF_vars(Next)

(***************************************************************************)
(* What the properties speak of: the accesses of the source text itself.   *)
(***************************************************************************)
RECURSIVE Canon(_)
\* the canonical names an expression is counted under, in order: `s.<member>`
\* for the first-level member of `s`, the text of a marker-prefixed identifier
\* that is not called
Canon(e) ==
    CASE e.op = "id" -> IF StartsWith(e.name, "_") THEN << e.name >> ELSE <<>>
      [] e.op = "member" ->
           IF e.base = Id(NameS) THEN << <<"s", ".">> \o e.member >>
           ELSE Canon(e.base)
      [] e.op = "call" -> IF e.callee.op = "id" THEN <<>> ELSE Canon(e.callee)
      [] e.op = "decl" -> IF StartsWith(e.name, "_") THEN << e.name >> ELSE <<>>

RECURSIVE CanonAll(_)
CanonAll(body) == IF body = <<>> THEN <<>> ELSE Canon(Head(body)) \o CanonAll(Tail(body))

\* the names counted for an item, in order; the identifiers of a function's
\* header are identifier tokens inside the function definition too
Counted(it) ==
    IF it.kind # "fn" THEN <<>>
    ELSE Canon(Id(it.name))
         \o (IF it.param = <<>> THEN <<>> ELSE Canon(Id(it.param)))
         \o CanonAll(it.body)

Occurrences(list, x) == Cardinality({ i \in DOMAIN list : list[i] = x })
Names(list) == { list[i] : i \in DOMAIN list }
Distinct(list) == \A i, j \in DOMAIN list : i # j => list[i] # list[j]

\* the duplicate diagnostics on stderr for the function on `line` of `path`
DupLines(path, line) ==
    SelectSeq(stderr, LAMBDA d : d.kind = "dup" /\ d.path = path /\ d.line = line)

DupLinesOf(path, line, member) ==
    SelectSeq(DupLines(path, line), LAMBDA d : d.member = member)

\* the worker is inside the loop of parse_and_lint
Linting(w) == wPc[w] = "match"
\* the worker has taken every match of the file and is about to return
Analysed(w) == wPc[w] = "match" /\ mIdx[w] > Len(matches[w])

Source(w) == disk[wPath[w]].items
FnLines(w) == { i \in DOMAIN Source(w) : Source(w)[i].kind = "fn" }

C2_DistinctNamesNoDiagnostic ==
    \A w \in Workers : Linting(w) =>
      \A i \in FnLines(w) :
        Distinct(Counted(Source(w)[i])) => DupLines(wPath[w], i) = <<>>

\* a function with two distinct names was analysed without a diagnostic in a
\* file whose other function accesses one of these names too
C2_Witness ==
    \E w \in Workers : Analysed(w) /\
      \E i, j \in FnLines(w) :
        /\ i # j
        /\ Len(Counted(Source(w)[i])) >= 2
        /\ Distinct(Counted(Source(w)[i]))
        /\ Names(Counted(Source(w)[i])) \cap Names(Counted(Source(w)[j])) # {}
        /\ DupLines(wPath[w], i) = <<>>

(***************************************************************************)
(* The step of the loop a property speaks of.                              *)
(***************************************************************************)
\* worker w takes the next match of its stream in this step
Stepping(w) ==
    /\ Linting(w)
    /\ mIdx[w] <= Len(matches[w])
    /\ mIdx'[w] = mIdx[w] + 1

Cur(w) == matches[w][mIdx[w]]
CurToken(w) == FunctionNameToken(tree[w], Cur(w))
CurName(w) == MemberName(tree[w], Cur(w))
CurKey(w) == ScopeKey(tree[w], CurToken(w))
\* the match is counted and has an enclosing function
Attributed(w) == ~Skipped(tree[w], Cur(w)) /\ CurToken(w) # 0
\* the function of the match already has a duplicate diagnostic
Reported(w) == DupLines(wPath[w], tree[w][CurToken(w)].line) # <<>>

(***************************************************************************)
(* The scope of a function of the source, found by its place in the text.  *)
(***************************************************************************)
\* the name token of the function on `line`
NameToken(t, line) ==
    CHOOSE n \in DOMAIN t :
      /\ t[n].kind = "Identifier"
      /\ t[n].line = line
      /\ t[n].parent # 0
      /\ t[t[n].parent].kind = "FunctionName"

NameOffset(w, i) == tree[w][NameToken(tree[w], i)].off
ScopeOf(w, i) == Entry(accesses[w], NameOffset(w, i))
ScopeAfter(w, i) == Entry(accesses'[w], NameOffset(w, i))
\* the line of the identifier the current match captures
CurLine(w) == tree[w][Cur(w).var_name].line

C4_PerFunctionTracking ==
    /\ [][ \A w \in Workers : Stepping(w) =>
             /\ \A v \in Workers \ {w} : accesses'[v] = accesses[v]
             /\ \A j \in FnLines(w) \ {CurLine(w)} : ScopeAfter(w, j) = ScopeOf(w, j)
         ]_vars
    /\ [](\A w \in Workers : Linting(w) =>
            \A i, j \in FnLines(w) : i # j =>
              \A n \in Names(Counted(Source(w)[i])) :
                (/\ Occurrences(Counted(Source(w)[i]), n) = 1
                 /\ Occurrences(Counted(Source(w)[j]), n) = 1)
                => (/\ DupLinesOf(wPath[w], i, n) = <<>>
                    /\ DupLinesOf(wPath[w], j, n) = <<>>))

\* two functions of a file were analysed, each holding the same name once, at
\* different name offsets, each scope holds it, and there is no diagnostic
C4_Witness ==
    \E w \in Workers : Analysed(w) /\
      \E i, j \in FnLines(w) :
        /\ i # j
        /\ NameOffset(w, i) # NameOffset(w, j)
        /\ \E n \in Names(ScopeOf(w, i)) : n \in Names(ScopeOf(w, j))
        /\ stderr = <<>>

(***************************************************************************)
(* C5                                                                      *)
(***************************************************************************)
\* C5: a counted access goes to the scope of the function definition that
\* encloses the captured identifier and to no other; an identifier outside
\* every function definition creates no scope and gives no diagnostic.
C5_NearestEnclosingFunction ==
    /\ [][ \A w \in Workers : Stepping(w) =>
             IF CurLine(w) \in FnLines(w)
             THEN /\ DOMAIN accesses'[w] \subseteq
                       DOMAIN accesses[w] \cup { NameOffset(w, CurLine(w)) }
                  /\ \A k \in DOMAIN accesses[w] :
                       k # NameOffset(w, CurLine(w)) => accesses'[w][k] = accesses[w][k]
                  /\ \A d \in Names(SubSeq(stderr', Len(stderr) + 1, Len(stderr'))) :
                       /\ d.line = CurLine(w)
                       /\ d.function = Source(w)[CurLine(w)].name
             ELSE accesses' = accesses /\ stderr' = stderr
         ]_vars
    /\ [](\A w \in Workers : Linting(w) =>
            /\ DOMAIN accesses[w] \subseteq { NameOffset(w, i) : i \in FnLines(w) }
            /\ \A i \in FnLines(w) :
                 Names(ScopeOf(w, i)) \subseteq Names(Counted(Source(w)[i])))
    /\ [](\A w \in Workers : Analysed(w) =>
            \A i \in FnLines(w) :
              Names(ScopeOf(w, i)) = Names(Counted(Source(w)[i])))

\* a file was analysed in which a state variable initialiser uses the name a
\* function uses once: the function's scope holds it, no other scope exists
\* and there is no diagnostic
C5_Witness ==
    \E w \in Workers : Analysed(w) /\
      \E i \in FnLines(w) : \E j \in DOMAIN Source(w) :
        /\ Source(w)[j].kind = "var"
        /\ i < j
        /\ Canon(Source(w)[j].body[1]) # <<>>
        /\ ScopeOf(w, i) = Canon(Source(w)[j].body[1])
        /\ DOMAIN accesses[w] = { NameOffset(w, i) }
        /\ stderr = <<>>

(***************************************************************************)
(* C6                                                                      *)
(***************************************************************************)
\* C6: no access of the source is counted twice. Each counted access of a
\* function ends as one entry of its scope or as one diagnostic, so a
\* qualified access `s.<member>` counts once (as `s.<member>`, never again as
\* the bare member, and never as `s`), and a function whose only access is
\* one `s.<member>` has no diagnostic.
C6_NoDoubleCount ==
    \A w \in Workers : Linting(w) =>
      \A i \in FnLines(w) :
        LET counted == Counted(Source(w)[i]) IN
        /\ Len(ScopeOf(w, i)) + Len(DupLines(wPath[w], i)) <= Len(counted)
        /\ Analysed(w) =>
             Len(ScopeOf(w, i)) + Len(DupLines(wPath[w], i)) = Len(counted)
        /\ NameS \notin Names(ScopeOf(w, i))
        /\ (Len(counted) = 1 /\ Len(Source(w)[i].body) = 1) =>
             DupLines(wPath[w], i) = <<>>

\* `function f() { s._x; }` was analysed: the scope is <<"s._x">>, no diagnostic
C6_Witness ==
    \E w \in Workers : Analysed(w) /\
      /\ Source(w) = << Fn(NameF, <<>>, << Member(Id(NameS), NameUX) >>) >>
      /\ ScopeOf(w, 1) = << StoragePrefixed(NameUX) >>
      /\ stderr = <<>>

(***************************************************************************)
(* C7                                                                      *)
(***************************************************************************)
ChainsOfA == { Member(Member(Id(NameS), NameA), NameB),
               Member(Member(Id(NameS), NameA), NameUX) }

\* C7: a chained access is tracked under its first-level member. A function
\* `f()` whose statements are all chained accesses through `s.a` (`s.a.b`,
\* `s.a._x`) has the scope <<"s.a">> and one diagnostic for `s.a` per
\* statement after the first; no scope and no diagnostic ever holds a longer
\* chain or the last member alone.
C7_ChainTruncated ==
    \A w \in Workers : Linting(w) =>
      \A i \in FnLines(w) :
        LET it == Source(w)[i]
            recorded == Names(ScopeOf(w, i))
                        \cup { d.member : d \in Names(DupLines(wPath[w], i)) } IN
        /\ \A n \in recorded :
             /\ n # NameB
             /\ Occurrences(n, ".") <= 1
        /\ (/\ Analysed(w)
            /\ it.name = NameF /\ it.param = <<>> /\ it.body # <<>>
            /\ \A k \in DOMAIN it.body : it.body[k] \in ChainsOfA)
           => /\ ScopeOf(w, i) = << StoragePrefixed(NameA) >>
              /\ Len(DupLinesOf(wPath[w], i, StoragePrefixed(NameA))) = Len(it.body) - 1
              /\ Len(DupLines(wPath[w], i)) = Len(it.body) - 1

\* `function f() { s.a.b; s.a._x; }` (either order) was analysed: one
\* diagnostic, for `s.a`
C7_Witness ==
    \E w \in Workers : Analysed(w) /\
      /\ Len(Source(w)) = 1
      /\ Source(w)[1].name = NameF
      /\ Len(Source(w)[1].body) = 2
      /\ Names(Source(w)[1].body) = ChainsOfA
      /\ ScopeOf(w, 1) = << StoragePrefixed(NameA) >>
      /\ Len(stderr) = 1
      /\ stderr[1].member = StoragePrefixed(NameA)

(***************************************************************************)
(* C8                                                                      *)
(***************************************************************************)
\* the statements of a body that are the expression e
Reads(body, e) == Cardinality({ k \in DOMAIN body : body[k] = e })
\* the identifier tokens `name` of a function's header (its own name, its
\* parameter)
Declared(it, name) ==
    (IF it.name = name THEN 1 ELSE 0) + (IF it.param = name THEN 1 ELSE 0)

NoPlainName(w, i) ==
    /\ NameX \notin Names(ScopeOf(w, i))
    /\ DupLinesOf(wPath[w], i, NameX) = <<>>

LinesOf(kind, path) == SelectSeq(stderr, LAMBDA d : d.kind = kind /\ d.path = path)
Processed(path) == \E k \in DOMAIN stdout :
                     stdout[k].kind = "processing" /\ stdout[k].path = path
AllDone == \A w \in Workers : wPc[w] = "done"
IsPrefix(a, b) == Len(a) <= Len(b) /\ a = SubSeq(b, 1, Len(a))

\* C10: the tree of a file that does not parse is never inspected. The
\* worker logs the parse errors and the failure of that file and goes back to
\* receive, its table and the queue untouched; no duplicate diagnostic ever
\* names that file; and the duplicate diagnostics of every valid file of the
\* run are, as they are written and when the run has ended, those of that
\* file analysed alone.
C10_InvalidFileAbandoned ==
    /\ [][ \A w \in Workers :
             (/\ wPc[w] = "parse" /\ wPc'[w] # "parse"
              /\ disk[wPath[w]].readable /\ ~disk[wPath[w]].valid)
             => /\ wPc'[w] = "recv"
                /\ stderr' = stderr \o << Line("syntax", wPath[w], <<>>, 0, <<>>),
                                          Line("failed", wPath[w], <<>>, 0, <<>>) >>
                /\ UNCHANGED << tree, matches, mIdx, accesses, queue, closed, stdout >>
         ]_vars
    /\ [](\A w \in Workers : Linting(w) => disk[wPath[w]].valid)
    /\ [](\A p \in DOMAIN disk : ~disk[p].valid => LinesOf("dup", p) = <<>>)
    /\ [][ stderr' # stderr =>
             \A p \in DOMAIN disk :
               LinesOf("dup", p)' # LinesOf("dup", p) =>
                 IsPrefix(LinesOf("dup", p)', LintFile(p, disk[p].items)) ]_vars
    /\ [](AllDone =>
            \A p \in DOMAIN disk :
              (disk[p].kind = "sol" /\ disk[p].valid /\ Processed(p)) =>
                LinesOf("dup", p) = LintFile(p, disk[p].items))

\* a run has ended in which a file that does not parse was processed first
\* and a valid file with a repeated access after it: the directory holds both,
\* stderr holds the parse error of the first and then the diagnostic of the
\* second
C10_Witness ==
    /\ AllDone
    /\ result = "ok"
    /\ Len(disk) = 2
    /\ disk[1] = SolFile(TRUE, FALSE, DupSource)
    /\ disk[2] = SolFile(TRUE, TRUE, DupSource)
    /\ Len(LinesOf("syntax", 1)) = 1
    /\ Len(LinesOf("dup", 1)) = 0
    /\ Len(LinesOf("dup", 2)) = 1

(***************************************************************************)
(* The run as a whole.                                                     *)
(***************************************************************************)
SolPaths == { p \in DOMAIN disk : disk[p].kind = "sol" }
\* the paths the producer has sent
Sent == { p \in SolPaths : p < walkIdx }
ProcessingCount(p) ==
    Len(SelectSeq(stdout, LAMBDA d : d.kind = "processing" /\ d.path = p))
Holders(p) == { w \in Workers : wPath[w] = p }
Busy(w) == wPc[w] \in { "parse", "match" }
\* what the analysis of file p writes to stderr when it is complete
Complete(p) ==
    IF ~disk[p].readable
    THEN LinesOf("syntax", p) = <<>> /\ Len(LinesOf("failed", p)) = 1
         /\ LinesOf("dup", p) = <<>>
    ELSE IF ~disk[p].valid
    THEN Len(LinesOf("syntax", p)) = 1 /\ Len(LinesOf("failed", p)) = 1
         /\ LinesOf("dup", p) = <<>>
    ELSE LinesOf("syntax", p) = <<>> /\ LinesOf("failed", p) = <<>>
         /\ LinesOf("dup", p) = LintFile(p, disk[p].items)
Succeeded == mainPc = "returned" /\ result = "ok"

Terminated(w) == wPc[w] \in { "done", "failed", "panicked", "cancelled" }

\* C12: the queue grows only while it is open; it is closed only when the
\* walk is over and every path was sent; a worker leaves its receive loop
\* only on a closed and empty queue, and cannot go on at recv only while the
\* queue is empty and open; under fair scheduling, once the queue is closed
\* every worker ends and main returns.
C12_TerminationProtocol ==
    /\ [][ Len(queue') > Len(queue) => (~closed /\ ~closed') ]_vars
    /\ [][ (closed' /\ ~closed) => (walkIdx > Len(disk) /\ Sent = SolPaths) ]_vars
    /\ [][ closed => closed' ]_vars
    /\ [][ \A w \in Workers :
             (wPc[w] = "recv" /\ wPc'[w] = "done") => (closed /\ queue = <<>>) ]_vars
    /\ [](\A w \in Workers :
            (wPc[w] = "recv" /\ ~ENABLED Recv(w)) => (queue = <<>> /\ ~closed))
    /\ (mainPc = "join") ~> (mainPc = "returned" /\ \A w \in Workers : Terminated(w))

\* the run has ended well after a worker waited on the empty open queue: both
\* files of the directory were processed and every worker left its loop
C12_Witness ==
    /\ Succeeded
    /\ AllDone
    /\ Len(disk) = 2
    /\ \A p \in DOMAIN disk : ProcessingCount(p) = 1

(***************************************************************************)
(* C13                                                                     *)
(***************************************************************************)
\* what the worker and parse_and_lint write to stderr for the file at path p
FileLines(p) ==
    IF ~disk[p].readable THEN << Line("failed", p, <<>>, 0, <<>>) >>
    ELSE IF ~disk[p].valid
    THEN << Line("syntax", p, <<>>, 0, <<>>), Line("failed", p, <<>>, 0, <<>>) >>
    ELSE LintFile(p, disk[p].items)

RECURSIVE WalkLinesFrom(_)
\* what main's walk writes to stderr from entry p on
WalkLinesFrom(p) ==
    IF p > Len(disk) THEN <<>>
    ELSE (IF disk[p].kind = "error" THEN << Line("error", p, <<>>, 0, <<>>) >> ELSE <<>>)
         \o WalkLinesFrom(p + 1)

RECURSIVE OneWorkerFrom(_)
\* what the only worker of a run with n_threads = 1 writes to stderr from
\* path p on: it receives the paths in the order of the walk
OneWorkerFrom(p) ==
    IF p > Len(disk) THEN <<>>
    ELSE (IF disk[p].kind = "sol" THEN FileLines(p) ELSE <<>>) \o OneWorkerFrom(p + 1)

\* stderr at the end of the run with one worker, no write failing
OneWorkerStderr ==
    IF config \in { "unreadable", "malformed" } THEN <<>>
    ELSE WalkLinesFrom(1)
         \o (IF VersionSupported(version) THEN OneWorkerFrom(1) ELSE <<>>)

Permutation(a, b) ==
    /\ Len(a) = Len(b)
    /\ \A i \in DOMAIN a : Occurrences(a, a[i]) = Occurrences(b, a[i])

\* the run is over and no write to stdout failed
EndedUnbroken ==
    /\ mainPc = "returned"
    /\ \A w \in Workers : wPc[w] \in { "unspawned", "done", "failed", "cancelled" }

\* C13: when a run with several workers has ended, whatever the interleaving,
\* the lines on stderr are those of the run with one worker, each as many
\* times: only their order can differ.
C13_SameDiagnostics == EndedUnbroken => Permutation(stderr, OneWorkerStderr)

\* a run of two workers that has ended with the diagnostics of two files in
\* the other order than the one worker writes them
C13_Witness ==
    /\ EndedUnbroken
    /\ Succeeded
    /\ NThreads > 1
    /\ \E i, j \in DOMAIN stderr :
         i < j /\ stderr[i].kind = "dup" /\ stderr[j].kind = "dup"
         /\ stderr[i].path > stderr[j].path
    /\ stderr # OneWorkerStderr

(***************************************************************************)
(* C14                                                                     *)
(***************************************************************************)
Fatal(w) == wPc[w] \in { "failed", "panicked" }

\* C14: whatever the workers do, main in its walk can take its next step
\* (the channel is unbounded: send does not wait), and a worker at recv can
\* take a queued path whatever became of the others; under fair scheduling
\* the walk, with every worker failed too, and a fatal condition in a worker
\* are always followed by the close of the queue and the return of main.
C14_NoHang ==
    /\ [](mainPc = "walk" => ENABLED (Walk \/ Close))
    /\ [](\A w \in Workers : (wPc[w] = "recv" /\ queue # <<>>) => ENABLED Recv(w))
    /\ (mainPc = "walk" \/ \E w \in Workers : Fatal(w)) ~> (closed /\ mainPc = "returned")

\* a worker panicked, another went on, emptied the queue and left its loop,
\* and main returned the panic
C14_Witness ==
    /\ mainPc = "returned"
    /\ result = "panic"
    /\ queue = <<>>
    /\ \E w1, w2 \in Workers :
         /\ wPc[w1] = "panicked"
         /\ wPc[w2] = "done"
         /\ \E k \in DOMAIN stderr : stderr[k].kind = "dup"

(***************************************************************************)
(* C15                                                                     *)
(***************************************************************************)
\* the worker's task has come to its end by itself (main's await of its
\* handle would return)
Ended(w) == wPc[w] \in { "done", "failed", "panicked" }

\* C15: main has returned only with every spawned worker ended, and when a
\* worker ended with a fatal error what main returned is a worker's fatal
\* error.
C15_JoinsAllBeforeReturn ==
    /\ [][ mainPc' = "returned" /\ mainPc # "returned" =>
             \A w \in Workers : wPc[w] = "unspawned" \/ Ended(w) ]_vars
    /\ [](mainPc = "returned" /\ (\E w \in Workers : Fatal(w)) =>
             result \in { "init", "panic" })

(***************************************************************************)
(* C16                                                                     *)
(***************************************************************************)
\* C16: a step that writes a file's failure or a diagnostic leaves main's
\* result alone and the worker in its loop; main returns an error only for a
\* configuration that cannot be read or parsed, a send on the closed queue, or
\* the handle of a worker that failed to initialise or panicked; and a run
\* with a usable configuration and no panic returns success, whatever was
\* written about its files.
C16_FileLocalOutcomes ==
    /\ [][ \A w \in Workers :
             (wPc[w] \in { "parse", "match" } /\ wPc'[w] # wPc[w])
             => /\ wPc'[w] \in { "recv", "match" }
                /\ result' = result
                /\ mainPc' = mainPc ]_vars
    /\ [][ stderr' # stderr => (result' = result /\ \A w \in Workers : ~Fatal(w)' \/ Fatal(w)) ]_vars
    /\ [](result = "config" => config \in { "unreadable", "malformed" })
    /\ [](result = "send" => closed)
    /\ [](result = "init" => (~VersionSupported(version) /\ wPc[joined + 1] = "failed"))
    /\ [](result = "panic" => wPc[joined + 1] = "panicked")
    /\ []((/\ mainPc = "returned"
           /\ config \notin { "unreadable", "malformed" }
           /\ VersionSupported(version)
           /\ \A w \in Workers : wPc[w] # "panicked") => result = "ok")

\* a run has succeeded with a file that could not be read and a file with a
\* duplicate diagnostic
C16_Witness ==
    /\ Succeeded
    /\ \A w \in Workers : wPc[w] = "done"
    /\ \E i, j \in DOMAIN stderr : stderr[i].kind = "failed" /\ stderr[j].kind = "dup"
    /\ \E p \in DOMAIN disk : disk[p].kind = "sol" /\ ~disk[p].readable

(***************************************************************************)
(* C17                                                                     *)
(***************************************************************************)
NothingScanned ==
    /\ \A w \in Workers : wPc[w] = "unspawned"
    /\ walkIdx = 1
    /\ queue = <<>>
    /\ ~closed
    /\ stdout = <<>>
    /\ stderr = <<>>

\* C17: with a foundry.toml that cannot be read or parsed main's first step
\* returns the error, and nothing is ever spawned, walked, sent or written;
\* without the file or without the key main goes on, with the default
\* version, and the configuration is never the error it returns.
C17_ConfigFailureBeforeScan ==
    /\ [][ (mainPc = "config" /\ config \in { "unreadable", "malformed" })
           => (mainPc' = "returned" /\ result' = "config") ]_vars
    /\ [](config \in { "unreadable", "malformed" } => NothingScanned)
    /\ [](result = "config" => (mainPc = "returned" /\ NothingScanned))
    /\ [][ (mainPc = "config" /\ config \in { "missing", "nokey" })
           => (/\ mainPc' = "spawn"
               /\ result' = "none"
               /\ version' = DefaultVersion
               /\ stdout' = << Line("version", 0, <<>>, 0, DefaultVersion) >>) ]_vars
    /\ [](config \in { "missing", "nokey" } =>
            (version = DefaultVersion /\ result \notin { "config", "init" }))

\* main has returned the configuration error
C17_Witness == mainPc = "returned" /\ result = "config" /\ config = "malformed" /\ Len(disk) > 0

(***************************************************************************)
(* C18                                                                     *)
(***************************************************************************)
\* C18: every list of the table holds pairwise distinct names, at every
\* point of the analysis; a step on an attributed access whose name is in its
\* function's list writes one diagnostic, for that function and that name, and
\* leaves the list as it was; a step on one whose name is not in the list
\* appends the name and writes nothing.
C18_ScopeNamesDistinct ==
    /\ [](\A w \in Workers : \A key \in DOMAIN accesses[w] : Distinct(accesses[w][key]))
    /\ [][ \A w \in Workers :
             (Stepping(w) /\ Attributed(w)) =>
               LET before == Entry(accesses[w], CurKey(w))
                   after  == Entry(accesses'[w], CurKey(w))
               IN IF \E k \in DOMAIN before : before[k] = CurName(w)
                  THEN /\ after = before
                       /\ Len(stderr') = Len(stderr) + 1
                       /\ stderr'[Len(stderr')].kind = "dup"
                       /\ stderr'[Len(stderr')].member = CurName(w)
                       /\ stderr'[Len(stderr')].line = tree[w][CurToken(w)].line
                       /\ stderr'[Len(stderr')].function = Unparse(tree[w], CurToken(w))
                  ELSE /\ after = Append(before, CurName(w))
                       /\ stderr' = stderr ]_vars

\* a function's list holds two names after three accesses, one of them a
\* repeat that was reported
C18_Witness ==
    \E w \in Workers : \E i \in DOMAIN disk[1].items :
      /\ Linting(w)
      /\ wPath[w] = 1
      /\ i \in FnLines(w)
      /\ Len(ScopeOf(w, i)) = 2
      /\ Len(DupLines(1, i)) = 1
      /\ Len(Counted(Source(w)[i])) = 3
      /\ Analysed(w)

(***************************************************************************)
(* C19                                                                     *)
(***************************************************************************)
RECURSIVE TableAfter(_, _, _)
\* the table of a file analysed from an empty table, after its first k matches
TableAfter(t, ms, k) ==
    IF k = 0 THEN <<>>
    ELSE LintMatch(0, t, ms[k], TableAfter(t, ms, k - 1)).accesses

\* the step is one of worker w
StepOf(w) == wPc'[w] # wPc[w] \/ mIdx'[w] # mIdx[w]

\* C19: a worker's table is empty whenever the worker is not inside a file's
\* analysis and when it enters one; each time it changes inside the analysis,
\* and when the analysis is over, it is the table the matches handled so far
\* give from an empty one, whatever the worker or the others analysed before
\* or meanwhile; a table changes only in a step of its worker, which changes
\* no other table; and what a step of the loop writes is what that match
\* gives on the table of its file analysed alone.
C19_ScopeTableLocal ==
    /\ [](\A w \in Workers : (~Linting(w) \/ mIdx[w] = 1) => accesses[w] = <<>>)
    /\ [](\A w \in Workers :
            Analysed(w) => accesses[w] = TableAfter(tree[w], matches[w], Len(matches[w])))
    /\ [][ \A w \in Workers :
             accesses'[w] # accesses[w] =>
               /\ StepOf(w)
               /\ \A v \in Workers \ {w} : ~StepOf(v) /\ accesses'[v] = accesses[v]
               /\ Linting(w)' =>
                    accesses'[w] = TableAfter(tree'[w], matches'[w], mIdx'[w] - 1) ]_vars
    /\ [][ \A w \in Workers :
             Stepping(w) =>
               stderr' = stderr \o LintMatch(wPath[w], tree[w], Cur(w),
                                             TableAfter(tree[w], matches[w], mIdx[w] - 1)).out ]_vars

\* one worker has analysed two files one after the other, the other workers
\* not started: the functions of both files have their name at the same
\* offset, and each file has its diagnostic
C19_Witness ==
    \E w \in Workers :
      /\ Analysed(w)
      /\ wPath[w] = 2
      /\ \A v \in Workers \ {w} : wPc[v] = "init"
      /\ disk[1] = disk[2]
      /\ Len(LinesOf("dup", 1)) = 1
      /\ Len(LinesOf("dup", 2)) = 1
      /\ DOMAIN accesses[w] = { tree[w][NameToken(tree[w], 1)].off }

(***************************************************************************)
(* C20                                                                     *)
(***************************************************************************)
RECURSIVE FirstOccurrences(_)
\* the distinct elements of a list, each at the place of its first occurrence
FirstOccurrences(list) ==
    IF list = <<>> THEN <<>>
    ELSE LET front == FirstOccurrences(SubSeq(list, 1, Len(list) - 1))
             last  == list[Len(list)]
         IN IF \E k \in DOMAIN front : front[k] = last THEN front ELSE Append(front, last)

\* C20: when a valid file is analysed, each of its functions has as many
\* duplicate diagnostics as it has counted accesses less the number of
\* distinct names among them, and its scope is the list of those distinct
\* names in the order of their first occurrence.
C20_DiagnosticCount ==
    \A w \in Workers :
      Analysed(w) =>
        \A i \in FnLines(w) :
          LET counted == Counted(Source(w)[i]) IN
          /\ Len(DupLines(wPath[w], i)) = Len(counted) - Cardinality(Names(counted))
          /\ ScopeOf(w, i) = FirstOccurrences(counted)

\* an analysed function with three counted accesses to one name: two
\* diagnostics, one name in its scope
C20_Witness ==
    \E w \in Workers : \E i \in DOMAIN disk[1].items :
      /\ Analysed(w)
      /\ i \in FnLines(w)
      /\ Len(Counted(Source(w)[i])) = 3
      /\ Cardinality(Names(Counted(Source(w)[i]))) = 1
      /\ Len(DupLines(wPath[w], i)) = 2
      /\ Len(ScopeOf(w, i)) = 1

(***************************************************************************)
(* C21                                                                     *)
(***************************************************************************)
\* the tokens `name` of a function that declare it: the function's own name,
\* its parameter, its local variables
DeclaredIn(it, name) == Declared(it, name) + Reads(it.body, Decl(name))

\* C21: when a function is analysed, the diagnostics for `_x` are one less
\* than its `_x` tokens that are neither a member suffix nor a callee, the
\* declaring tokens (the function's name, its parameter, a local variable)
\* counted like the reads, and `_x` is in the scope as soon as there is one
\* such token; so a function that declares `_x` once and reads it once has
\* exactly one diagnostic, for `_x`; a plain `x`, declared or not, a callee
\* `_x()` and the suffix of `s._x` are never counted as `_x`.
C21_DeclarationsCounted ==
    \A w \in Workers : Analysed(w) =>
      \A i \in FnLines(w) :
        LET it    == Source(w)[i]
            decls == DeclaredIn(it, NameUX)
            reads == Reads(it.body, Id(NameUX))
        IN /\ Len(DupLinesOf(wPath[w], i, NameUX)) =
                IF decls + reads = 0 THEN 0 ELSE decls + reads - 1
           /\ Occurrences(ScopeOf(w, i), NameUX) = IF decls + reads = 0 THEN 0 ELSE 1
           /\ (decls = 1 /\ reads = 1) => Len(DupLinesOf(wPath[w], i, NameUX)) = 1
           /\ NoPlainName(w, i)
           /\ Len(DupLines(wPath[w], i)) = Len(Counted(it)) - Cardinality(Names(Counted(it)))

\* `function f() { uint _x; _x; }` is analysed: one diagnostic, for `_x`
C21_Witness ==
    \E w \in Workers :
      /\ Analysed(w)
      /\ Source(w) = << Fn(NameF, <<>>, << Decl(NameUX), Id(NameUX) >>) >>
      /\ Len(DupLines(wPath[w], 1)) = 1
      /\ DupLines(wPath[w], 1)[1].member = NameUX
      /\ ScopeOf(w, 1) = << NameUX >>

====
